---- MODULE Spec2Model ----
(***************************************************************************)
(* The notes client of src/src/App.tsx: the React component App with its   *)
(* state (notes, loading) and its three asynchronous handlers fetchNotes,  *)
(* createNote and deleteNote, run against a record store                   *)
(* (client.models.Todo) and a blob store (uploadData / getUrl), together   *)
(* with the storage access rules of src/amplify/storage/resource.ts.       *)
(*                                                                         *)
(* JavaScript is single threaded: every action below is one run of code    *)
(* between two awaits (or one step of an external service), and handlers   *)
(* interleave only at their awaits.                                        *)
(***************************************************************************)
EXTENDS Integers, Sequences, FiniteSets, TLC

\* ------------------------------------------------------------------ bounds
\* handler invocations in a run: the mount effect's fetchNotes, clicks on
\* Refresh, submissions of the create form, clicks on a Delete button
MaxCalls == 3
\* records the store holds when the component mounts (SpecFetch, SpecBrowse)
MaxInit == 3

FetchIds == 1..MaxCalls
CreateIds == 1..MaxCalls
DeleteIds == 1..MaxCalls

\* --------------------------------------------------------- JavaScript values
\* A string is modelled by the sequence of its parts: the characters of a
\* title or content, the "/"-separated segments of a storage path or URL.
Undefined == [type |-> "undefined"]
Null == [type |-> "null"]
Str(s) == [type |-> "string", val |-> s]
Arr(s) == [type |-> "array", val |-> s]
\* what a throwing expression evaluates to
TypeError == [type |-> "TypeError"]

IsString(v) == v.type = "string"
\* JavaScript truthiness of undefined, null and strings
Truthy(v) == IsString(v) /\ v.val # <<>>
\* a ?? b
Coalesce(a, b) == IF a \in {Undefined, Null} THEN b ELSE a

Whitespace == {" "}

RECURSIVE TrimStart(_)
TrimStart(s) ==
    IF s # <<>> /\ Head(s) \in Whitespace THEN TrimStart(Tail(s)) ELSE s

RECURSIVE TrimEnd(_)
TrimEnd(s) ==
    IF s # <<>> /\ s[Len(s)] \in Whitespace
    THEN TrimEnd(SubSeq(s, 1, Len(s) - 1))
    ELSE s

\* String.prototype.trim
trim(s) == TrimEnd(TrimStart(s))

\* ------------------------------------------------------------ form inputs
Titles == {<<>>, <<" ">>, <<"a">>, <<" ", "a", " ">>}
Contents == {Undefined, Str(<<" ">>)}
FileNames == {"a.png"}
Files == {Null} \cup {[name |-> n, type |-> "image/png"] : n \in FileNames}

\* ------------------------------------------------------------------ helpers
readStringProp(obj, key) ==
    IF obj \in {Null, Undefined} THEN TypeError
    ELSE LET value == IF key \in DOMAIN obj THEN obj[key] ELSE Undefined
         IN  IF IsString(value) THEN value ELSE Undefined

\* mutant: the image field is not looked at
getImageKey_NoFallback(note) == readStringProp(note, "imageKey")

getImageKey(note) ==
    LET first == readStringProp(note, "imageKey")
    IN  IF first = TypeError THEN TypeError
        ELSE Coalesce(first, readStringProp(note, "image"))

buildCreateInput(base, imageKey) ==
    IF Truthy(imageKey)
    THEN [title |-> base.title, content |-> base.content,
          imageKey |-> imageKey, image |-> imageKey]
    ELSE [title |-> base.title, content |-> base.content,
          imageKey |-> Undefined, image |-> Undefined]

\* `public/notes/${Date.now()}_${form.imageFile.name}`
ImagePath(now, file) ==
    Str(<<"public", "notes", ToString(now) \o "_" \o file.name>>)

\* n as NoteView: the record itself, which has no imageUrl property
AsNoteView(n) == ("imageUrl" :> Undefined) @@ n

\* { ...n, imageUrl: url?.toString() }
WithImageUrl(n, url) == ("imageUrl" :> url) @@ n

\* the URL getUrl resolves a path to
UrlOf(key) == Str(<<"https:">> \o key.val)

\* mutant: the filter's test is inverted
FilterOut_Inverted(prev, id) == SelectSeq(prev, LAMBDA n : n.id = id)

\* prev.filter((n) => n.id !== id)
FilterOut(prev, id) == SelectSeq(prev, LAMBDA n : n.id # id)

\* ------------------------------------------------------------ storage rules
CurrentIdentity == "identity-1"

AccessRules ==
    {[pattern |-> <<"media", "{entity_id}", "*">>,
      entity |-> "identity",
      actions |-> {"read", "write", "delete"}]}

RECURSIVE PathMatches(_, _, _)
PathMatches(path, pattern, who) ==
    IF pattern = <<>> THEN path = <<>>
    ELSE IF Head(pattern) = "*" THEN path # <<>>
    ELSE IF path = <<>> THEN FALSE
    ELSE /\ \/ Head(pattern) = "{entity_id}" /\ Head(path) = who
            \/ Head(pattern) # "{entity_id}" /\ Head(path) = Head(pattern)
         /\ PathMatches(Tail(path), Tail(pattern), who)

Grants(path, who, action) ==
    \E r \in AccessRules :
        action \in r.actions /\ PathMatches(path.val, r.pattern, who)

\* ------------------------------------------------------------------- state
VARIABLES
    notes,      \* useState: the in-memory list of display notes
    loading,    \* useState: the loading flag
    store,      \* record store: the Todo records, in insertion order
    nextId,     \* record store: the id the next created record gets
    imageField, \* record store: the schema's field for the image reference
    blobs,      \* blob store: the paths that hold an uploaded object
    fpc,        \* fetchNotes invocation -> where it is
    fdata,      \* fetchNotes invocation -> data ?? []
    furl,       \* fetchNotes invocation -> state of each record's getUrl call
    cpc,        \* createNote invocation -> where it is
    cinput,     \* createNote invocation -> its locals title, base, imagePath
    ccreated,   \* createNote invocation -> created (data of the response)
    cerrors,    \* createNote invocation -> errors?.length of the response
    dpc,        \* deleteNote invocation -> where it is
    did,        \* deleteNote invocation -> its id argument
    fresh       \* history: ids createNote prepended since the last publication

vars == <<notes, loading, store, nextId, imageField, blobs, fpc, fdata, furl,
          cpc, cinput, ccreated, cerrors, dpc, did, fresh>>

storeVars == <<store, nextId, imageField, blobs>>
fetchVars == <<fpc, fdata, furl>>
createVars == <<cpc, cinput, ccreated, cerrors>>
deleteVars == <<dpc, did>>

NoInput == [title |-> Undefined, content |-> Undefined, imagePath |-> Undefined]
ImageFields == {"imageKey", "image"}

Started(pc) == Cardinality({k \in DOMAIN pc : pc[k] # "idle"})

\* invocations of a handler are numbered in the order they are made
NextToStart(pc, k) ==
    /\ Started(fpc) + Started(cpc) + Started(dpc) < MaxCalls
    /\ pc[k] = "idle"
    /\ IF k = 1 THEN TRUE ELSE pc[k - 1] # "idle"

\* Date.now(): time is counted in handler invocations, so that two
\* submissions never read the same time
Now == Started(fpc) + Started(cpc) + Started(dpc)

\* the effect of line 69 has run: the component is mounted
Mounted == fpc[1] # "idle"

InitApp ==
    /\ notes = <<>>
    /\ loading = FALSE
    /\ fpc = [f \in FetchIds |-> "idle"]
    /\ fdata = [f \in FetchIds |-> <<>>]
    /\ furl = [f \in FetchIds |-> <<>>]
    /\ cpc = [c \in CreateIds |-> "idle"]
    /\ cinput = [c \in CreateIds |-> NoInput]
    /\ ccreated = [c \in CreateIds |-> Undefined]
    /\ cerrors = [c \in CreateIds |-> FALSE]
    /\ dpc = [d \in DeleteIds |-> "idle"]
    /\ did = [d \in DeleteIds |-> 0]
    /\ fresh = {}

Init ==
    /\ InitApp
    /\ store = <<>>
    /\ nextId = 1
    /\ imageField \in ImageFields
    /\ blobs = {}

\* The store as a session may find it at mount: records of earlier
\* sessions, at most one of the two image fields holding a string.
SeedKey == ImagePath(0, [name |-> "a.png", type |-> "image/png"])

SeedImages ==
    {<<Null, Null>>, <<Str(<<>>), Null>>, <<SeedKey, Null>>,
     <<Null, Str(<<>>)>>, <<Null, SeedKey>>}

SeedRecord(i, img) ==
    [id |-> i, title |-> Str(<<"a">>), content |-> Null,
     imageKey |-> img[1], image |-> img[2]]

\* the stores of at most MaxInit records with image fields drawn from images
SeedStores(images) ==
    {[i \in 1..n |-> SeedRecord(i, imgs[i])] :
        n \in 0..MaxInit, imgs \in [1..MaxInit -> images]}

InitSeeded(stores) ==
    /\ InitApp
    /\ store \in stores
    /\ nextId = Len(store) + 1
    /\ imageField = "imageKey"
    /\ blobs = {SeedKey}

InitFetch == InitSeeded(SeedStores(SeedImages))

InitBrowse == InitSeeded(SeedStores({<<Null, Null>>, <<SeedKey, Null>>}))

\* ------------------------------------------------------------- fetchNotes
\* setLoading(true) and the list request (lines 75-77)
FetchStart(f) ==
    /\ loading' = TRUE
    /\ fpc' = [fpc EXCEPT ![f] = "list"]
    /\ UNCHANGED <<notes, fdata, furl, fresh>>
    /\ UNCHANGED <<storeVars, createVars, deleteVars>>

\* useEffect(() => { void fetchNotes(); }, [])
Mount ==
    /\ fpc[1] = "idle"
    /\ FetchStart(1)

\* the Refresh button is disabled={loading}
RefreshEnabled == ~loading

RefreshClick(f) ==
    /\ Mounted
    /\ f > 1
    /\ NextToStart(fpc, f)
    /\ RefreshEnabled
    /\ FetchStart(f)

\* the state of the getUrl call the map callback makes for record n
UrlCall(n) == IF Truthy(getImageKey(n)) THEN "pending" ELSE "none"

\* the list call resolves: errors beside the data are only logged (line 78),
\* data ?? [] is mapped, one callback per record
ListReturn(f, data) ==
    /\ fpc[f] = "list"
    /\ LET list == Coalesce(data, Arr(<<>>)).val
       IN  /\ fdata' = [fdata EXCEPT ![f] = list]
           /\ furl' = [furl EXCEPT ![f] = [i \in 1..Len(list) |-> UrlCall(list[i])]]
    /\ fpc' = [fpc EXCEPT ![f] = "resolve"]
    /\ UNCHANGED <<notes, loading, fresh>>
    /\ UNCHANGED <<storeVars, createVars, deleteVars>>

\* mutant: no finally block
ListThrow_NoFinally(f) ==
    /\ fpc[f] = "list"
    /\ fpc' = [fpc EXCEPT ![f] = "threw"]
    /\ UNCHANGED <<notes, loading, fdata, furl, fresh>>
    /\ UNCHANGED <<storeVars, createVars, deleteVars>>

\* the list call rejects: finally { setLoading(false) }, the error propagates
ListThrow(f) ==
    /\ fpc[f] = "list"
    /\ fpc' = [fpc EXCEPT ![f] = "threw"]
    /\ loading' = FALSE
    /\ UNCHANGED <<notes, fdata, furl, fresh>>
    /\ UNCHANGED <<storeVars, createVars, deleteVars>>

\* one getUrl call of the fan-out settles
UrlSettle(f, i, outcome) ==
    /\ fpc[f] = "resolve"
    /\ i \in 1..Len(furl[f])
    /\ furl[f][i] = "pending"
    /\ furl' = [furl EXCEPT ![f][i] = outcome]
    /\ UNCHANGED <<notes, loading, fpc, fdata, fresh>>
    /\ UNCHANGED <<storeVars, createVars, deleteVars>>

UrlResolve(f, i) == UrlSettle(f, i, "resolved")

\* catch { return n as NoteView }
UrlReject(f, i) == UrlSettle(f, i, "rejected")

\* what the map callback of record n returns
EnrichOne(n, call) ==
    IF call = "resolved"
    THEN WithImageUrl(n, UrlOf(getImageKey(n)))
    ELSE AsNoteView(n)

Enriched(f) ==
    [i \in 1..Len(fdata[f]) |-> EnrichOne(fdata[f][i], furl[f][i])]

\* Promise.all has resolved: setNotes(enriched); finally { setLoading(false) }
FetchPublish(f) ==
    /\ fpc[f] = "resolve"
    /\ \A i \in 1..Len(furl[f]) : furl[f][i] # "pending"
    /\ notes' = Enriched(f)
    /\ loading' = FALSE
    /\ fpc' = [fpc EXCEPT ![f] = "done"]
    /\ fdata' = [fdata EXCEPT ![f] = <<>>]
    /\ furl' = [furl EXCEPT ![f] = <<>>]
    /\ fresh' = {}
    /\ UNCHANGED <<storeVars, createVars, deleteVars>>

\* ------------------------------------------------------------- createNote
\* form.content?.trim() || undefined
TrimContent(content) ==
    IF IsString(content) /\ trim(content.val) # <<>>
    THEN Str(trim(content.val))
    ELSE Undefined

\* mutant: no return on an empty title
CreateSubmit_NoTitleCheck(c, rawTitle, rawContent, file) ==
    /\ Mounted
    /\ NextToStart(cpc, c)
    /\ cpc' = [cpc EXCEPT ![c] = IF file # Null THEN "upload" ELSE "create"]
    /\ cinput' = [cinput EXCEPT ![c] =
                     [title |-> Str(trim(rawTitle)),
                      content |-> TrimContent(rawContent),
                      imagePath |-> IF file # Null
                                    THEN ImagePath(Now, file) ELSE Undefined]]
    /\ UNCHANGED <<notes, loading, ccreated, cerrors, fresh>>
    /\ UNCHANGED <<storeVars, fetchVars, deleteVars>>

\* the synchronous head of createNote (lines 105-121), run on the form's
\* title, content and imageFile
CreateSubmit(c, rawTitle, rawContent, file) ==
    /\ Mounted
    /\ NextToStart(cpc, c)
    /\ LET title == Str(trim(rawTitle))
           imagePath == IF file # Null THEN ImagePath(Now, file) ELSE Undefined
       IN  IF ~Truthy(title)
           THEN /\ cpc' = [cpc EXCEPT ![c] = "noop"]
                /\ cinput' = [cinput EXCEPT ![c].title = title]
           ELSE /\ cpc' = [cpc EXCEPT ![c] =
                              IF file # Null THEN "upload" ELSE "create"]
                /\ cinput' = [cinput EXCEPT ![c] =
                                 [title |-> title,
                                  content |-> TrimContent(rawContent),
                                  imagePath |-> imagePath]]
    /\ UNCHANGED <<notes, loading, ccreated, cerrors, fresh>>
    /\ UNCHANGED <<storeVars, fetchVars, deleteVars>>

\* await uploadData(...).result resolves; the create request is issued
UploadDone(c) ==
    /\ cpc[c] = "upload"
    /\ blobs' = blobs \cup {cinput[c].imagePath}
    /\ cpc' = [cpc EXCEPT ![c] = "create"]
    /\ UNCHANGED <<notes, loading, store, nextId, imageField, fresh>>
    /\ UNCHANGED <<cinput, ccreated, cerrors, fetchVars, deleteVars>>

\* mutant: the upload's failure is swallowed
UploadThrow_Swallowed(c) ==
    /\ cpc[c] = "upload"
    /\ cpc' = [cpc EXCEPT ![c] = "create"]
    /\ UNCHANGED <<notes, loading, cinput, ccreated, cerrors, fresh>>
    /\ UNCHANGED <<storeVars, fetchVars, deleteVars>>

\* await uploadData(...).result rejects: createNote throws
UploadThrow(c) ==
    /\ cpc[c] = "upload"
    /\ cpc' = [cpc EXCEPT ![c] = "threwUpload"]
    /\ cinput' = [cinput EXCEPT ![c] = NoInput]
    /\ UNCHANGED <<notes, loading, ccreated, cerrors, fresh>>
    /\ UNCHANGED <<storeVars, fetchVars, deleteVars>>

\* undefined is not sent; the store answers null for a field it does not hold
Stored(v) == Coalesce(v, Null)

\* the record the store makes of a create payload
NewRecord(input) ==
    [id |-> nextId,
     title |-> input.title,
     content |-> Stored(input.content),
     imageKey |-> IF imageField = "imageKey" THEN Stored(input.imageKey) ELSE Null,
     image |-> IF imageField = "image" THEN Stored(input.image) ELSE Null]

CreateInput(c) ==
    buildCreateInput([title |-> cinput[c].title, content |-> cinput[c].content],
                     cinput[c].imagePath)

\* the record store serves client.models.Todo.create(input): it creates the
\* record (with or without errors beside it), or refuses with errors only
CreateServe(c, data, errors) ==
    /\ cpc[c] = "create"
    /\ IF data # Null
       THEN /\ store' = Append(store, data)
            /\ nextId' = nextId + 1
       ELSE UNCHANGED <<store, nextId>>
    /\ ccreated' = [ccreated EXCEPT ![c] = data]
    /\ cerrors' = [cerrors EXCEPT ![c] = errors]
    /\ cpc' = [cpc EXCEPT ![c] = "created"]
    /\ UNCHANGED <<notes, loading, imageField, blobs, cinput, fresh>>
    /\ UNCHANGED <<fetchVars, deleteVars>>

\* the create call rejects: createNote throws
CreateThrow(c) ==
    /\ cpc[c] = "create"
    /\ cpc' = [cpc EXCEPT ![c] = "threwCreate"]
    /\ cinput' = [cinput EXCEPT ![c] = NoInput]
    /\ UNCHANGED <<notes, loading, ccreated, cerrors, fresh>>
    /\ UNCHANGED <<storeVars, fetchVars, deleteVars>>

\* setNotes((prev) => [newItem, ...prev]); the form is reset
Prepend(c, newItem) ==
    /\ notes' = <<newItem>> \o notes
    /\ fresh' = fresh \cup {newItem.id}
    /\ cpc' = [cpc EXCEPT ![c] = "done"]
    /\ cinput' = [cinput EXCEPT ![c] = NoInput]
    /\ ccreated' = [ccreated EXCEPT ![c] = Undefined]
    /\ cerrors' = [cerrors EXCEPT ![c] = FALSE]

\* the create call resolves (lines 125-131): errors are logged, then
\* getImageKey(created) reads a property of created
CreateReturn(c) ==
    /\ cpc[c] = "created"
    /\ LET created == ccreated[c]
           key == getImageKey(created)
       IN  IF key = TypeError
           THEN /\ cpc' = [cpc EXCEPT ![c] = "threwTypeError"]
                /\ cinput' = [cinput EXCEPT ![c] = NoInput]
                /\ ccreated' = [ccreated EXCEPT ![c] = Undefined]
                /\ UNCHANGED <<notes, fresh, cerrors>>
           ELSE IF Truthy(key)
           THEN /\ cpc' = [cpc EXCEPT ![c] = "geturl"]
                /\ UNCHANGED <<notes, fresh, cinput, ccreated, cerrors>>
           ELSE Prepend(c, AsNoteView(created))
    /\ UNCHANGED loading
    /\ UNCHANGED <<storeVars, fetchVars, deleteVars>>

\* await getUrl({ path: key }) resolves (lines 133-134)
CreateUrlResolve(c) ==
    /\ cpc[c] = "geturl"
    /\ Prepend(c, WithImageUrl(ccreated[c], UrlOf(getImageKey(ccreated[c]))))
    /\ UNCHANGED loading
    /\ UNCHANGED <<storeVars, fetchVars, deleteVars>>

\* await getUrl({ path: key }) rejects: catch { ignore }
CreateUrlReject(c) ==
    /\ cpc[c] = "geturl"
    /\ Prepend(c, AsNoteView(ccreated[c]))
    /\ UNCHANGED loading
    /\ UNCHANGED <<storeVars, fetchVars, deleteVars>>

\* ------------------------------------------------------------- deleteNote
\* ids of the entries rendered, each with its Delete button
ListedIds == {notes[i].id : i \in 1..Len(notes)}

\* onClick={() => deleteNote(note.id)}: the delete request is issued
DeleteClick(d, id) ==
    /\ Mounted
    /\ NextToStart(dpc, d)
    /\ id \in ListedIds
    /\ dpc' = [dpc EXCEPT ![d] = "delete"]
    /\ did' = [did EXCEPT ![d] = id]
    /\ UNCHANGED <<notes, loading, fresh>>
    /\ UNCHANGED <<storeVars, fetchVars, createVars>>

\* the record store serves client.models.Todo.delete({ id })
DeleteServe(d) ==
    /\ dpc[d] = "delete"
    /\ store' = FilterOut(store, did[d])
    /\ dpc' = [dpc EXCEPT ![d] = "deleted"]
    /\ UNCHANGED <<notes, loading, nextId, imageField, blobs, did, fresh>>
    /\ UNCHANGED <<fetchVars, createVars>>

\* the delete call rejects: deleteNote throws
DeleteThrow(d) ==
    /\ dpc[d] = "delete"
    /\ dpc' = [dpc EXCEPT ![d] = "threw"]
    /\ UNCHANGED <<notes, loading, did, fresh>>
    /\ UNCHANGED <<storeVars, fetchVars, createVars>>

\* the delete call resolves: setNotes((prev) => prev.filter(...))
DeleteReturn(d) ==
    /\ dpc[d] = "deleted"
    /\ notes' = FilterOut(notes, did[d])
    /\ fresh' = fresh \ {did[d]}
    /\ dpc' = [dpc EXCEPT ![d] = "done"]
    /\ UNCHANGED <<loading, did>>
    /\ UNCHANGED <<storeVars, fetchVars, createVars>>

\* ------------------------------------------------------------ specification
MaxRecords == MaxInit + MaxCalls

Next ==
    \/ Mount
    \/ \E f \in FetchIds : RefreshClick(f)
    \/ \E f \in FetchIds : ListReturn(f, Arr(store))
    \/ \E f \in FetchIds : ListReturn(f, Null)
    \/ \E f \in FetchIds : ListThrow(f)
    \/ \E f \in FetchIds, i \in 1..MaxRecords : UrlResolve(f, i)
    \/ \E f \in FetchIds, i \in 1..MaxRecords : UrlReject(f, i)
    \/ \E f \in FetchIds : FetchPublish(f)
    \/ \E c \in CreateIds, t \in Titles, b \in Contents, file \in Files :
          CreateSubmit(c, t, b, file)
    \/ \E c \in CreateIds : UploadDone(c)
    \/ \E c \in CreateIds : UploadThrow(c)
    \/ \E c \in CreateIds, errors \in BOOLEAN :
          CreateServe(c, NewRecord(CreateInput(c)), errors)
    \/ \E c \in CreateIds : CreateServe(c, Null, TRUE)
    \/ \E c \in CreateIds : CreateThrow(c)
    \/ \E c \in CreateIds : CreateReturn(c)
    \/ \E c \in CreateIds : CreateUrlResolve(c)
    \/ \E c \in CreateIds : CreateUrlReject(c)
    \/ \E d \in DeleteIds, id \in 1..MaxRecords : DeleteClick(d, id)
    \/ \E d \in DeleteIds : DeleteServe(d)
    \/ \E d \in DeleteIds : DeleteThrow(d)
    \/ \E d \in DeleteIds : DeleteReturn(d)

Spec == Init /\ [][Next]_vars

\* fetchNotes alone, over a store that earlier sessions filled
NextFetch ==
    \/ Mount
    \/ \E f \in FetchIds : RefreshClick(f)
    \/ \E f \in FetchIds : ListReturn(f, Arr(store))
    \/ \E f \in FetchIds : ListReturn(f, Null)
    \/ \E f \in FetchIds : ListThrow(f)
    \/ \E f \in FetchIds, i \in 1..MaxRecords : UrlResolve(f, i)
    \/ \E f \in FetchIds, i \in 1..MaxRecords : UrlReject(f, i)
    \/ \E f \in FetchIds : FetchPublish(f)

SpecFetch == InitFetch /\ [][NextFetch]_vars

\* fetchNotes and deleteNote, over a store that earlier sessions filled
NextBrowse ==
    \/ NextFetch
    \/ \E d \in DeleteIds, id \in 1..MaxRecords : DeleteClick(d, id)
    \/ \E d \in DeleteIds : DeleteServe(d)
    \/ \E d \in DeleteIds : DeleteThrow(d)
    \/ \E d \in DeleteIds : DeleteReturn(d)

SpecBrowse == InitBrowse /\ [][NextBrowse]_vars

\* ================================================================= claims
InFlight(f) == fpc[f] \in {"list", "resolve"}

\* some image field of the record holds a non-empty string
HasImageKey(n) == \E k \in ImageFields : Truthy(n[k])

\* C1: the list a fetchNotes publishes has one entry per record of the
\* list call's data, in the same order and with the record's fields; a
\* getUrl call was made and has settled for exactly the records with an
\* image key; an entry has an imageUrl iff its record has an image key and
\* that call resolved; and a rejected getUrl call leaves the invocation
\* running and the other calls of the fan-out as they were.
C1_FetchPublishesEveryRecord ==
    [][\A f \in FetchIds :
        /\ (fpc[f] = "resolve" /\ fpc'[f] = "done") =>
              /\ Len(notes') = Len(fdata[f])
              /\ \A i \in 1..Len(fdata[f]) :
                    /\ \A k \in DOMAIN fdata[f][i] : notes'[i][k] = fdata[f][i][k]
                    /\ HasImageKey(fdata[f][i]) <=>
                          furl[f][i] \in {"resolved", "rejected"}
                    /\ notes'[i].imageUrl # Undefined <=>
                          (HasImageKey(fdata[f][i]) /\ furl[f][i] = "resolved")
        /\ \A i \in 1..Len(furl[f]) :
              (/\ fpc[f] = "resolve"
               /\ furl[f][i] = "pending"
               /\ Len(furl'[f]) >= i
               /\ furl'[f][i] = "rejected") =>
                    /\ fpc'[f] = "resolve"
                    /\ fdata'[f] = fdata[f]
                    /\ Len(furl'[f]) = Len(furl[f])
                    /\ \A j \in 1..Len(furl[f]) : j # i => furl'[f][j] = furl[f][j]
      ]_vars

\* C1 witness: a publication of two records with image keys, the first
\* resolved and the second rejected
C1_Witness ==
    /\ \E f \in FetchIds : fpc[f] = "done"
    /\ Len(notes) >= 2
    /\ HasImageKey(notes[1]) /\ notes[1].imageUrl # Undefined
    /\ HasImageKey(notes[2]) /\ notes[2].imageUrl = Undefined

\* C2: no two entries of the in-memory list have the same id.
C2_UniqueIds ==
    \A i, j \in 1..Len(notes) : i # j => notes[i].id # notes[j].id

\* C3: loading is true while an invocation of fetchNotes is running, and
\* false once it has completed, by publishing or by throwing, with no
\* other invocation running.
C3_LoadingWhileFetching ==
    /\ \A f \in FetchIds : InFlight(f) => loading
    /\ (\A f \in FetchIds : ~InFlight(f)) => ~loading

\* C3 witness: one invocation has thrown, another has published, and the
\* flag is cleared
C3_Witness ==
    /\ ~loading
    /\ \E f, g \in FetchIds : fpc[f] = "threw" /\ fpc[g] = "done"

\* C4: a createNote with an image file issues the create request only
\* from its upload, with the object of its path in the blob store; an
\* upload that fails changes neither the list nor the record store, and
\* the invocation ends there, thrown, with no create request.
C4_UploadBeforeCreate ==
    [][\A c \in CreateIds :
        /\ (cpc[c] # "create" /\ cpc'[c] = "create"
              /\ cinput'[c].imagePath # Undefined) =>
                 /\ cpc[c] = "upload"
                 /\ cinput'[c].imagePath \in blobs'
        /\ cpc[c] = "upload" => cpc'[c] \in {"upload", "create", "threwUpload"}
        /\ (cpc[c] = "upload" /\ cpc'[c] = "threwUpload") =>
                 /\ notes' = notes
                 /\ store' = store /\ nextId' = nextId
        /\ cpc[c] = "threwUpload" => cpc'[c] = "threwUpload"
      ]_vars

\* C4 witness: one invocation's upload has failed, and another's create
\* request is out after its upload
C4_Witness ==
    \E c, e \in CreateIds :
        /\ cpc[c] = "threwUpload"
        /\ cpc[e] = "create" /\ cinput[e].imagePath \in blobs

\* C5: a createNote whose title is empty after trimming returns at once,
\* without error: no upload, no create request, the list, the record store
\* and the blob store unchanged, and nothing of it follows.
C5_EmptyTitleIsNoOp ==
    [][\A c \in CreateIds :
        /\ (cpc[c] = "idle" /\ cpc'[c] # "idle" /\ ~Truthy(cinput'[c].title)) =>
                 /\ cpc'[c] = "noop"
                 /\ notes' = notes
                 /\ store' = store /\ nextId' = nextId
                 /\ blobs' = blobs
        /\ cpc[c] = "noop" => cpc'[c] = "noop"
      ]_vars

\* C5 witness: a submission with a blank title has returned over a list
\* that holds a note
C5_Witness ==
    /\ Len(notes) > 0
    /\ \E c \in CreateIds : cpc[c] = "noop"

\* s is t with some entries left out, the others in t's order
IsSubsequence(s, t) ==
    \E g \in [1..Len(s) -> 1..Len(t)] :
        /\ \A k \in 1..Len(s) : s[k] = t[g[k]]
        /\ \A k \in 1..Len(s) - 1 : g[k] < g[k + 1]

\* C6: when a deleteNote(id) completes with id in the list, the new list
\* has no entry of that id, and is the old list's entries of other ids, all
\* of them, in their old order.
C6_DeleteRemovesOnlyThatId ==
    [][\A d \in DeleteIds :
        (dpc[d] = "deleted" /\ dpc'[d] = "done" /\ did[d] \in ListedIds) =>
            /\ \A i \in 1..Len(notes') : notes'[i].id # did[d]
            /\ IsSubsequence(notes', notes)
            /\ Len(notes') =
                  Cardinality({i \in 1..Len(notes) : notes[i].id # did[d]})
      ]_vars

\* C6 witness: the middle entry of three has been deleted
C6_Witness ==
    /\ \E d \in DeleteIds : dpc[d] = "done" /\ did[d] = 2
    /\ Len(notes) = 2
    /\ notes[1].id = 1 /\ notes[2].id = 3

Threw == {"threwUpload", "threwCreate", "threwTypeError"}

\* C7: a createNote whose create call returned errors does not throw.
C7_CreateErrorsNotThrown ==
    \A c \in CreateIds : cerrors[c] => cpc[c] \notin Threw

\* C8: the notes createNote prepended since the last publication come
\* first, of two of them the later created before the earlier created, and
\* the notes of the last publication follow in record-store order.
C8_MostRecentFirst ==
    \A i, j \in 1..Len(notes) :
        (i < j /\ notes[i].id # notes[j].id) =>
            /\ notes[j].id \in fresh => notes[i].id \in fresh
            /\ (notes[i].id \in fresh /\ notes[j].id \in fresh) =>
                  notes[i].id > notes[j].id
            /\ (notes[i].id \notin fresh /\ notes[j].id \notin fresh) =>
                  notes[i].id < notes[j].id

\* C9: every path createNote uploads to is one the storage access rules
\* grant the uploading identity write access to.
C9_UploadPathsGranted ==
    \A c \in CreateIds :
        cinput[c].imagePath # Undefined =>
            Grants(cinput[c].imagePath, CurrentIdentity, "write")

\* C10: once a deleteNote(id) has completed, the list holds no entry of
\* that id.
C10_DeletedStaysDeleted ==
    \A d \in DeleteIds : dpc[d] = "done" => did[d] \notin ListedIds
====
